---- MODULE Spec2Model ----
(***************************************************************************)
(* The "Annotate Requirements" GitHub Action (openteamsinc/actions).       *)
(*                                                                         *)
(* The repository holds several revisions of the same entry point.  Three  *)
(* of them are modelled, selected by the variable `version`:               *)
(*   "channel"   src/src/index.mjs lines 292-500: pip and conda walks, the *)
(*               conda walk tracks the channel of the channels: block;     *)
(*   "modified"  src/src/index.mjs lines 1-290: pip and conda walks plus   *)
(*               the annotate-modified-only mode (getModifiedLines);       *)
(*   "legacy"    src/unnamed/part_000: pip only, forEach over the file     *)
(*               with the empty lines filtered out, lookups not awaited.   *)
(*                                                                         *)
(* Text is modelled character by character: a string is a sequence of      *)
(* one-character strings, and trim, startsWith, substring, indexOf and     *)
(* split are computed as JavaScript computes them.                         *)
(***************************************************************************)
EXTENDS Integers, Sequences, FiniteSets, TLC

\* ------------------------------------------------------------------ bounds
\* Longest manifest (in lines) of a walk that reads the file front to back.
MaxLines == 4
\* Longest manifest of the channel pool (the channels: example needs 5 lines).
MaxChannelLines == 5
\* Longest manifest of a run that reads lines by number (processLines of the
\* "modified" version) or filters by the modified-line set.
MaxModLines == 2
MaxPatchBody == 4

\* ------------------------------------------------------------ manifest text
LnChannels == <<"c", "h", "a", "n", "n", "e", "l", "s", ":">>
LnCondaForge == <<" ", " ", "-", " ", "c", "o", "n", "d", "a", "-", "f", "o", "r", "g", "e">>
LnBioconda == <<" ", " ", "-", " ", "b", "i", "o", "c", "o", "n", "d", "a">>
LnDefaults == <<" ", " ", "-", " ", "d", "e", "f", "a", "u", "l", "t", "s">>
LnDependencies == <<"d", "e", "p", "e", "n", "d", "e", "n", "c", "i", "e", "s", ":">>
LnSamtools == <<" ", " ", "-", " ", "s", "a", "m", "t", "o", "o", "l", "s">>
LnNumpy == <<" ", " ", "-", " ", "n", "u", "m", "p", "y">>
LnPip == <<" ", " ", "-", " ", "p", "i", "p", ":">>
LnFlask == <<" ", " ", " ", " ", "-", " ", "f", "l", "a", "s", "k", "=", "=", "2", ".", "0">>
LnName == <<"n", "a", "m", "e", ":", " ", "e", "n", "v">>
LnBlank == <<>>
LnDepsFlow == <<"d", "e", "p", "e", "n", "d", "e", "n", "c", "i", "e", "s", ":", " ", "[", "n", "u", "m", "p", "y", ",", " ", "p", "a", "n", "d", "a", "s", "]">>
LnPipFlow == <<" ", " ", "-", " ", "p", "i", "p", ":", " ", "[", "f", "l", "a", "s", "k", ",", " ", "r", "e", "q", "u", "e", "s", "t", "s", "]">>
LnFlow == <<" ", " ", "-", " ", "[", "n", "u", "m", "p", "y", ",", " ", "p", "a", "n", "d", "a", "s", "]">>
LnFlowOpen == <<" ", " ", "-", " ", "[", "n", "u", "m", "p", "y">>
LnInvalid == <<" ", " ", "-", " ", "m", "y", "@", "p", "k", "g">>
LnPinned == <<" ", " ", "-", " ", "n", "u", "m", "p", "y", "=", "1", ".", "2", "1", " ", " ", "#", " ", "p", "i", "n", "n", "e", "d">>
LnFlaskPin == <<"f", "l", "a", "s", "k", "=", "=", "2", ".", "0", ".", "1">>
LnComment == <<"#", " ", "c", "o", "m", "m", "e", "n", "t">>
LnRequests == <<"r", "e", "q", "u", "e", "s", "t", "s", ">", "=", "2", ".", "0">>
LnMyPkg == <<"m", "y", "@", "p", "k", "g">>
LnOption == <<"-", "r", " ", "b", "a", "s", "e", ".", "t", "x", "t">>
LnInline == <<"n", "u", "m", "p", "y", " ", " ", "#", " ", "m", "a", "t", "h">>
LnSpaces == <<" ", " ">>
LnCommented == <<" ", " ", "-", " ", "n", "u", "m", "p", "y", " ", " ", "#", " ", "m", "a", "t", "h">>

NmNumpy == <<"n", "u", "m", "p", "y">>
NmPandas == <<"p", "a", "n", "d", "a", "s">>
NmFlask == <<"f", "l", "a", "s", "k">>
NmRequests == <<"r", "e", "q", "u", "e", "s", "t", "s">>
NmSamtools == <<"s", "a", "m", "t", "o", "o", "l", "s">>
NmMyPkg == <<"m", "y", "@", "p", "k", "g">>
NmCondaForge == <<"c", "o", "n", "d", "a", "-", "f", "o", "r", "g", "e">>
NmBioconda == <<"b", "i", "o", "c", "o", "n", "d", "a">>
NmDefaults == <<"d", "e", "f", "a", "u", "l", "t", "s">>

KwChannels == <<"c", "h", "a", "n", "n", "e", "l", "s", ":">>
KwDependencies == <<"d", "e", "p", "e", "n", "d", "e", "n", "c", "i", "e", "s", ":">>
KwPip == <<"-", " ", "p", "i", "p", ":">>
KwFlow == <<"-", " ", "[">>
KwDash == <<"-">>

\* The manifests a run is given are drawn from one pool of lines.
PoolLines(p) ==
    CASE p = "block"    -> {LnDependencies, LnNumpy, LnPip, LnFlask, LnName, LnBlank}
      [] p = "channels" -> {LnChannels, LnCondaForge, LnBioconda, LnDefaults, LnDependencies, LnSamtools}
      [] p = "flow"     -> {LnDependencies, LnDepsFlow, LnPip, LnPipFlow, LnFlow, LnFlowOpen}
      [] p = "names"    -> {LnDependencies, LnInvalid, LnPinned, LnPip, LnFlask, LnCommented}
      [] p = "pip"      -> {LnFlaskPin, LnComment, LnBlank, LnRequests, LnMyPkg, LnOption}
      [] p = "pipmore"  -> {LnInline, LnSpaces, LnBlank, LnMyPkg, LnFlaskPin, LnOption}
      [] p = "document" -> {LnName, LnBlank, LnDependencies, LnNumpy}
      [] OTHER          -> {}

\* The lines a manifest of pool p may open with: the manifests of the
\* channels pool open with their channels: line.
FirstLines(p) == IF p = "channels" THEN {LnChannels} ELSE PoolLines(p)

Pools(eco) ==
    CASE eco = "conda" -> {"block", "channels", "flow", "names"}
      [] eco = "pip"   -> {"pip", "pipmore"}
      [] OTHER         -> {"none"}

\* The pools of the "parsed" version, whose conda reader loads the manifest
\* as a YAML document.
ParsedPools(eco) ==
    CASE eco = "conda" -> {"document"}
      [] eco = "pip"   -> {"pip"}
      [] OTHER         -> {"none"}

\* ------------------------------------------------------ JavaScript strings
WhiteSpace == {" ", "\t"}
Digits == {"0", "1", "2", "3", "4", "5", "6", "7", "8", "9"}
LowerCase == {"a", "b", "c", "d", "e", "f", "g", "h", "i", "j", "k", "l", "m",
              "n", "o", "p", "q", "r", "s", "t", "u", "v", "w", "x", "y", "z"}
UpperCase == {"A", "B", "C", "D", "E", "F", "G", "H", "I", "J", "K", "L", "M",
              "N", "O", "P", "Q", "R", "S", "T", "U", "V", "W", "X", "Y", "Z"}
\* The character class of packageNamePattern, /^[a-zA-Z0-9._-]+$/.
NameChars == LowerCase \cup UpperCase \cup Digits \cup {".", "_", "-"}
\* The character class stripVersion splits on, /[<>=~!]/.
VersionChars == {"<", ">", "=", "~", "!"}

Min(a, b) == IF a < b THEN a ELSE b
Max(a, b) == IF a < b THEN b ELSE a

RECURSIVE trimStart(_)
trimStart(s) ==
    IF s = <<>> THEN s
    ELSE IF Head(s) \in WhiteSpace THEN trimStart(Tail(s)) ELSE s

RECURSIVE trimEnd(_)
trimEnd(s) ==
    IF s = <<>> THEN s
    ELSE IF s[Len(s)] \in WhiteSpace THEN trimEnd(SubSeq(s, 1, Len(s) - 1)) ELSE s

\* String.prototype.trim
trim(s) == trimEnd(trimStart(s))

\* String.prototype.startsWith
startsWith(s, p) == Len(s) >= Len(p) /\ SubSeq(s, 1, Len(p)) = p

\* String.prototype.indexOf for a one-character needle: 0-based, -1 if absent.
indexOf(s, c) ==
    IF \E i \in 1..Len(s) : s[i] = c
    THEN (CHOOSE i \in 1..Len(s) : s[i] = c /\ \A j \in 1..(i - 1) : s[j] # c) - 1
    ELSE -1

\* String.prototype.substring(a, b): both ends clamped to [0, length] and
\* swapped when a > b.
substring(s, a, b) ==
    LET ca == Max(0, Min(a, Len(s)))
        cb == Max(0, Min(b, Len(s)))
    IN  SubSeq(s, Min(ca, cb) + 1, Max(ca, cb))

\* String.prototype.substring(a)
substringFrom(s, a) == substring(s, a, Len(s))

\* s.split(separators)[0]: the text before the first separator character.
splitFirst(s, seps) ==
    IF \E i \in 1..Len(s) : s[i] \in seps
    THEN SubSeq(s, 1, (CHOOSE i \in 1..Len(s) : s[i] \in seps /\ \A j \in 1..(i - 1) : s[j] \notin seps) - 1)
    ELSE s

\* s.split(c): the pieces between the occurrences of c.
RECURSIVE split(_, _)
split(s, c) ==
    IF indexOf(s, c) = -1 THEN <<s>>
    ELSE <<SubSeq(s, 1, indexOf(s, c))>> \o split(SubSeq(s, indexOf(s, c) + 2, Len(s)), c)

\* ------------------------------------------------------------ line classifier
isValidPackageNameAnything(packageName) == packageName # <<>>
isValidPackageName(packageName) ==
    packageName # <<>> /\ \A i \in 1..Len(packageName) : packageName[i] \in NameChars

stripVersion(packageLine) == trim(splitFirst(packageLine, VersionChars))

\* null and the empty string are both falsy and only ever tested for truth:
\* both are the empty sequence here.
processPackageLine(line) ==
    LET cleanLine == trim(splitFirst(line, {"#"}))
    IN  IF cleanLine = <<>> \/ startsWith(cleanLine, KwDash) THEN <<>>
        ELSE stripVersion(cleanLine)

\* What `item - 1` indexes in allLines when item is a line of text (the
\* "modified" version hands processLines the lines themselves): ToNumber of
\* the text, less one.  Only blank text (0) and decimal digits are numbers
\* among the manifests modelled; everything else is NaN, which indexes
\* nothing, as -1 does.
DigitValue(c) ==
    CASE c = "0" -> 0 [] c = "1" -> 1 [] c = "2" -> 2 [] c = "3" -> 3 [] c = "4" -> 4
      [] c = "5" -> 5 [] c = "6" -> 6 [] c = "7" -> 7 [] c = "8" -> 8 [] c = "9" -> 9

RECURSIVE DecimalValue(_)
DecimalValue(s) ==
    IF s = <<>> THEN 0
    ELSE 10 * DecimalValue(SubSeq(s, 1, Len(s) - 1)) + DigitValue(s[Len(s)])

ToNumber(text) ==
    LET t == trim(text)
    IN  IF \A i \in 1..Len(t) : t[i] \in Digits THEN DecimalValue(t) ELSE -1

\* ------------------------------------------------------------- conda walker
\* The record a `yield` of getDependenciesWithLineNumbers produces.
yieldRecordCountingDown(dependency, lineNumber, ecosystem, channel) ==
    [dependency |-> dependency, lineNumber |-> 0 - lineNumber,
     ecosystem |-> ecosystem, channel |-> channel]
yieldRecordZeroBased(dependency, lineNumber, ecosystem, channel) ==
    [dependency |-> dependency, lineNumber |-> lineNumber - 1,
     ecosystem |-> ecosystem, channel |-> channel]
yieldRecord(dependency, lineNumber, ecosystem, channel) ==
    [dependency |-> dependency, lineNumber |-> lineNumber,
     ecosystem |-> ecosystem, channel |-> channel]

\* The entries of a flow list: the text between the first "[" and the first
\* "]" of the raw line, split at commas, each piece trimmed, empty pieces
\* dropped.
flowEntriesToEndOfLine(line) ==
    LET inner  == IF indexOf(line, "]") = -1 THEN substringFrom(line, indexOf(line, "[") + 1)
                  ELSE substring(line, indexOf(line, "[") + 1, indexOf(line, "]"))
        pieces == split(inner, ",")
        trimmed == [i \in 1..Len(pieces) |-> trim(pieces[i])]
    IN  SelectSeq(trimmed, LAMBDA dep : dep # <<>>)
flowEntries(line) ==
    LET inner  == substring(line, indexOf(line, "[") + 1, indexOf(line, "]"))
        pieces == split(inner, ",")
        trimmed == [i \in 1..Len(pieces) |-> trim(pieces[i])]
    IN  SelectSeq(trimmed, LAMBDA dep : dep # <<>>)

\* condaChannel after a line that is not a channels: marker: any "-" line
\* seen while inDependencies is false names the channel, unless it names
\* defaults.
channelAfter(condaChannel, trimmed, inDeps) ==
    IF startsWith(trimmed, KwDash) /\ ~inDeps
    THEN (IF substringFrom(trimmed, 2) # NmDefaults THEN substringFrom(trimmed, 2) ELSE condaChannel)
    ELSE condaChannel

\* The "modified" version's walker has no channel: its records carry none.
NoChannel == <<>>

walkLinePipAnywhere(ver, inDeps, inPip, chan, line, n) ==
    LET t       == trim(line)
        tracked == ver = "channel"
        chan1   == IF tracked THEN channelAfter(chan, t, inDeps) ELSE chan
        condaCh == IF tracked THEN chan1 ELSE NoChannel
        pipCh   == IF tracked THEN NmCondaForge ELSE NoChannel
        entries == flowEntries(line)
        flow    == IF inDeps /\ startsWith(t, KwFlow)
                   THEN [i \in 1..Len(entries) |-> yieldRecord(entries[i], n, "conda", condaCh)]
                   ELSE <<>>
        out(d, p, c, y) == [inDependencies |-> d, inPipDependencies |-> p,
                            condaChannel |-> c, yields |-> y]
    IN  IF tracked /\ startsWith(t, KwChannels) THEN out(inDeps, inPip, chan, <<>>)
        ELSE IF t = KwDependencies THEN out(TRUE, inPip, chan1, <<>>)
        ELSE IF t = KwPip THEN out(inDeps, TRUE, chan1, <<>>)
        ELSE IF inDeps /\ startsWith(t, KwDash) /\ ~inPip /\ ~startsWith(t, KwFlow)
             THEN out(inDeps, inPip, chan1,
                      flow \o <<yieldRecord(substringFrom(t, 2), n, "conda", condaCh)>>)
        ELSE IF inPip /\ startsWith(t, KwDash)
             THEN out(inDeps, inPip, chan1,
                      flow \o <<yieldRecord(substringFrom(t, 2), n, "pip", pipCh)>>)
        ELSE IF inPip /\ ~startsWith(t, KwDash) THEN out(inDeps, FALSE, chan1, flow)
        ELSE out(inDeps, inPip, chan1, flow)

\* One iteration of the for loop of getDependenciesWithLineNumbers over
\* `line`, whose number (already incremented) is n: the flags and channel
\* after it and the records it yields, in order.  ver = "channel" is the
\* walker of lines 417-472; any other ver is the walker of lines 156-199,
\* the same loop without the channel statements.
walkLine(ver, inDeps, inPip, chan, line, n) ==
    LET t       == trim(line)
        tracked == ver = "channel"
        chan1   == IF tracked THEN channelAfter(chan, t, inDeps) ELSE chan
        condaCh == IF tracked THEN chan1 ELSE NoChannel
        pipCh   == IF tracked THEN NmCondaForge ELSE NoChannel
        entries == flowEntries(line)
        flow    == IF inDeps /\ startsWith(t, KwFlow)
                   THEN [i \in 1..Len(entries) |-> yieldRecord(entries[i], n, "conda", condaCh)]
                   ELSE <<>>
        out(d, p, c, y) == [inDependencies |-> d, inPipDependencies |-> p,
                            condaChannel |-> c, yields |-> y]
    IN  IF tracked /\ startsWith(t, KwChannels) THEN out(inDeps, inPip, chan, <<>>)
        ELSE IF t = KwDependencies THEN out(TRUE, inPip, chan1, <<>>)
        ELSE IF inDeps /\ t = KwPip THEN out(inDeps, TRUE, chan1, <<>>)
        ELSE IF inDeps /\ startsWith(t, KwDash) /\ ~inPip /\ ~startsWith(t, KwFlow)
             THEN out(inDeps, inPip, chan1,
                      flow \o <<yieldRecord(substringFrom(t, 2), n, "conda", condaCh)>>)
        ELSE IF inPip /\ startsWith(t, KwDash)
             THEN out(inDeps, inPip, chan1,
                      flow \o <<yieldRecord(substringFrom(t, 2), n, "pip", pipCh)>>)
        ELSE IF inPip /\ ~startsWith(t, KwDash) THEN out(inDeps, FALSE, chan1, flow)
        ELSE out(inDeps, inPip, chan1, flow)

\* The whole for loop of getDependenciesWithLineNumbers over the first n
\* lines of w: the flags and channel after them and every record yielded.
RECURSIVE walkAll(_, _, _)
walkAll(ver, w, n) ==
    IF n = 0
    THEN [inDependencies |-> FALSE, inPipDependencies |-> FALSE,
          condaChannel |-> NmCondaForge, yields |-> <<>>]
    ELSE LET before == walkAll(ver, w, n - 1)
             after  == walkLine(ver, before.inDependencies, before.inPipDependencies,
                                before.condaChannel, w[n], n)
         IN  [after EXCEPT !.yields = before.yields \o after.yields]

\* ---------------------------------------------------------- scoring lookup
\* What fetchPackageScore requests: the registry and, for conda, the channel
\* of the URL.  Only the "channel" version passes the record's channel; the
\* "modified" version always asks conda-forge, the "legacy" one always pypi.
fetchKeyCondaForge(ver, packageName, eco, channel) ==
    [packageName |-> packageName,
     registry |-> IF ver \in {"legacy", "parsed"} \/ eco = "pip" THEN "pypi" ELSE "conda",
     channel |-> IF ver \in {"legacy", "parsed"} \/ eco = "pip" THEN NoChannel ELSE NmCondaForge]
fetchKey(ver, packageName, eco, channel) ==
    [packageName |-> packageName,
     registry |-> IF ver \in {"legacy", "parsed"} \/ eco = "pip" THEN "pypi" ELSE "conda",
     channel |-> IF ver \in {"legacy", "parsed"} \/ eco = "pip" THEN NoChannel
                 ELSE IF ver = "channel" THEN channel ELSE NmCondaForge]

\* The answers of the scoring service a lookup is given.
Responses ==
    {[kind |-> "source", maturity |-> "Mature", health |-> "Healthy"],
     [kind |-> "source", maturity |-> "Mature", health |-> "Moderate Risk"],
     [kind |-> "source", maturity |-> "Experimental", health |-> "Healthy"],
     [kind |-> "nosource", maturity |-> "Unknown", health |-> "Unknown"],
     [kind |-> "failure", maturity |-> "Unknown", health |-> "Unknown"]}

\* The values the service documents for maturity and for health risk, and
\* every answer made of them.
MaturityValues == {"Mature", "Legacy", "Experimental", "Developing", "Unknown",
                   "Placeholder", "Not Found"}
HealthRiskValues == {"Healthy", "Caution Needed", "Moderate Risk", "High Risk", "Unknown",
                     "Placeholder", "Not Found"}
Classifications ==
    {[kind |-> "source", maturity |-> m, health |-> h] :
        m \in MaturityValues, h \in HealthRiskValues}
    \cup {r \in Responses : r.kind # "source"}
\* The answers a lookup may be given for a manifest of pool p.
ResponsesOf(p) == IF p = "scores" THEN Classifications ELSE Responses

logLevelLegacyFirst(ver, maturityValue, healthRiskValue) ==
    IF maturityValue = "Mature" /\ healthRiskValue = "Healthy" THEN "notice"
    ELSE IF maturityValue = "Mature" /\ healthRiskValue = "Moderate Risk" THEN "warning"
    ELSE IF maturityValue = "Mature" /\ healthRiskValue = "High Risk" THEN "error"
    ELSE IF maturityValue = "Developing" /\ healthRiskValue = "Healthy" THEN "notice"
    ELSE IF maturityValue = "Legacy" THEN "warning"
    ELSE IF maturityValue = "Experimental" \/ healthRiskValue = "High Risk" THEN "error"
    ELSE IF ver # "channel"
            /\ (maturityValue \in {"Not Found", "Unknown", "Placeholder"}
                \/ healthRiskValue \in {"Not Found", "Unknown", "Placeholder", "Healthy"})
         THEN "notice"
    ELSE "warning"

\* The log function annotatePackage picks for a classification.  The chain
\* of the "channel" version has no branch for the uncertain values.
logLevel(ver, maturityValue, healthRiskValue) ==
    IF maturityValue = "Mature" /\ healthRiskValue = "Healthy" THEN "notice"
    ELSE IF maturityValue = "Mature" /\ healthRiskValue = "Moderate Risk" THEN "warning"
    ELSE IF maturityValue = "Mature" /\ healthRiskValue = "High Risk" THEN "error"
    ELSE IF maturityValue = "Developing" /\ healthRiskValue = "Healthy" THEN "notice"
    ELSE IF maturityValue = "Experimental" \/ healthRiskValue = "High Risk" THEN "error"
    ELSE IF maturityValue = "Legacy" THEN "warning"
    ELSE IF ver # "channel"
            /\ (maturityValue \in {"Not Found", "Unknown", "Placeholder"}
                \/ healthRiskValue \in {"Not Found", "Unknown", "Placeholder", "Healthy"})
         THEN "notice"
    ELSE "warning"

\* The level of the one annotation annotatePackage emits for a response.
\* The "parsed" version logs every classification with core.notice and a
\* package that is not found with core.error.
annotationLevel(ver, response) ==
    CASE response.kind = "source"   -> IF ver = "parsed" THEN "notice"
                                       ELSE logLevel(ver, response.maturity, response.health)
      [] response.kind = "nosource" -> IF ver = "parsed" THEN "error" ELSE "notice"
      [] response.kind = "failure"  -> "error"

\* yaml.load of a manifest made of top-level `key:` and `key: scalar` lines,
\* indented `- entry` lines and blank lines, and then `?.dependencies` on
\* its result: "throws" when the text is no YAML document (a key after a
\* top-level sequence, a key given twice), "present" when the dependencies
\* key has a list, "absent" otherwise (no document, a top-level sequence, no
\* such key, or the key with no value; entries after `key: scalar` continue
\* the scalar).
yamlLoad(w) ==
    LET isEntry(l) == startsWith(trim(l), KwDash)
        keyOf(l) == substring(l, 0, indexOf(l, ":"))
        nb == SelectSeq(w, LAMBDA l : trim(l) # <<>>)
        keyLines == SelectSeq(nb, LAMBDA l : ~isEntry(l))
        duplicated == \E i, j \in 1..Len(keyLines) :
                         i < j /\ keyOf(keyLines[i]) = keyOf(keyLines[j])
        valued == \E i \in 1..(Len(nb) - 1) :
                     trim(nb[i]) = KwDependencies /\ isEntry(nb[i + 1])
    IN  IF nb = <<>> THEN "absent"
        ELSE IF isEntry(nb[1]) THEN (IF keyLines = <<>> THEN "absent" ELSE "throws")
        ELSE IF duplicated THEN "throws"
        ELSE IF valued THEN "present"
        ELSE "absent"

\* ------------------------------------------------------- getModifiedLines
\* The text `git diff` prints for one file with one hunk.
PatchDiffGit == <<"d", "i", "f", "f", " ", "-", "-", "g", "i", "t", " ", "a", "/", "r", "e", "q", "u", "i", "r", "e", "m", "e", "n", "t", "s", ".", "t", "x", "t", " ", "b", "/", "r", "e", "q", "u", "i", "r", "e", "m", "e", "n", "t", "s", ".", "t", "x", "t">>
PatchIndex == <<"i", "n", "d", "e", "x", " ", "8", "3", "d", "b", "4", "8", "f", ".", ".", "b", "f", "2", "a", "1", "c", "3", " ", "1", "0", "0", "6", "4", "4">>
PatchOldFile == <<"-", "-", "-", " ", "a", "/", "r", "e", "q", "u", "i", "r", "e", "m", "e", "n", "t", "s", ".", "t", "x", "t">>
PatchNewFile == <<"+", "+", "+", " ", "b", "/", "r", "e", "q", "u", "i", "r", "e", "m", "e", "n", "t", "s", ".", "t", "x", "t">>
PatchContext == <<" ", "f", "l", "a", "s", "k">>
PatchAdded == <<"+", "n", "u", "m", "p", "y">>
PatchRemoved == <<"-", "r", "e", "q", "u", "e", "s", "t", "s">>
PatchNoNewline == <<"\\", " ", "N", "o", " ", "n", "e", "w", "l", "i", "n", "e", " ", "a", "t", " ", "e", "n", "d", " ", "o", "f", " ", "f", "i", "l", "e">>
KwHunk == <<"@", "@">>

DigitChar(d) ==
    CASE d = 0 -> "0" [] d = 1 -> "1" [] d = 2 -> "2" [] d = 3 -> "3" [] d = 4 -> "4"
      [] d = 5 -> "5" [] d = 6 -> "6" [] d = 7 -> "7" [] d = 8 -> "8" [] d = 9 -> "9"
RECURSIVE Decimal(_)
Decimal(n) == IF n < 10 THEN <<DigitChar(n)>> ELSE Decimal(n \div 10) \o <<DigitChar(n % 10)>>

\* A range of a hunk header as git prints it: the count is left out when it
\* is 1.
PatchRange(start, count) ==
    IF count = 1 THEN Decimal(start) ELSE Decimal(start) \o <<",">> \o Decimal(count)
PatchHunkHeader(oldStart, oldCount, newStart, newCount) ==
    <<"@", "@", " ", "-">> \o PatchRange(oldStart, oldCount) \o <<" ", "+">>
        \o PatchRange(newStart, newCount) \o <<" ", "@", "@">>

\* The body of a hunk, as the kinds of its lines.  The marker follows the
\* last line of the old file or of the new file: after a removed line only
\* added lines follow it, after an added or an unchanged line nothing does;
\* removed lines of a change come before its added lines.
PatchKinds == {"context", "added", "removed", "marker"}
WellFormedBody(b) ==
    /\ b # <<>> /\ b[1] # "marker"
    /\ \E i \in 1..Len(b) : b[i] \in {"added", "removed"}
    /\ \A i \in 2..Len(b) :
          /\ (b[i] = "removed") => b[i - 1] # "added"
          /\ (b[i] = "marker")
             => /\ b[i - 1] # "marker"
                /\ b[i - 1] = "removed"
                   => \A j \in (i + 1)..Len(b) : b[j] \in {"added", "marker"}
                /\ b[i - 1] \in {"added", "context"} => i = Len(b)
PatchText(kind) ==
    CASE kind = "context" -> PatchContext
      [] kind = "added"   -> PatchAdded
      [] kind = "removed" -> PatchRemoved
      [] kind = "marker"  -> PatchNoNewline
CountOf(b, kinds) == Len(SelectSeq(b, LAMBDA k : k \in kinds))

\* stdout of git diff, split at the newlines, for a file whose hunk b starts
\* after `before` unchanged lines that are not shown.
PatchOf(before, b) ==
    LET oldCount == CountOf(b, {"context", "removed"})
        newCount == CountOf(b, {"context", "added"})
    IN  <<PatchDiffGit, PatchIndex, PatchOldFile, PatchNewFile,
          PatchHunkHeader(IF oldCount = 0 THEN before ELSE before + 1, oldCount,
                          IF newCount = 0 THEN before ELSE before + 1, newCount)>>
        \o [i \in 1..Len(b) |-> PatchText(b[i])] \o <<LnBlank>>

\* /@@ -\d+,\d+ \+(\d+),/.exec(line): the text of the group, or <<>> when
\* the line has no match.
charAt(s, i) == IF i \in 1..Len(s) THEN s[i] ELSE ""
RECURSIVE digitRun(_, _)
digitRun(s, i) == IF charAt(s, i) \in Digits THEN 1 + digitRun(s, i + 1) ELSE 0
hunkMatch(line) ==
    LET groupAt(p) ==
            LET a == p + 4
                b == a + digitRun(line, a)
                c == b + 1 + digitRun(line, b + 1)
                d == c + 2 + digitRun(line, c + 2)
            IN  IF /\ p + 3 <= Len(line)
                   /\ SubSeq(line, p, p + 3) = <<"@", "@", " ", "-">>
                   /\ b > a /\ charAt(line, b) = ","
                   /\ c > b + 1 /\ charAt(line, c) = " " /\ charAt(line, c + 1) = "+"
                   /\ d > c + 2 /\ charAt(line, d) = ","
                THEN SubSeq(line, c + 2, d - 1)
                ELSE <<>>
        found == {p \in 1..Len(line) : groupAt(p) # <<>>}
    IN  IF found = {} THEN <<>>
        ELSE groupAt(CHOOSE p \in found : \A q \in found : p <= q)

\* One iteration of the loop of getModifiedLines over a line of the patch.
parsePatchLine(n, modified, line) ==
    IF startsWith(line, KwHunk)
    THEN [lineNumber |-> IF hunkMatch(line) # <<>> THEN DecimalValue(hunkMatch(line)) ELSE n,
          modifiedLines |-> modified]
    ELSE IF startsWith(line, <<"+">>) /\ ~startsWith(line, <<"+", "+", "+">>)
    THEN [lineNumber |-> n + 1, modifiedLines |-> Append(modified, n)]
    ELSE IF ~startsWith(line, <<"-">>)
    THEN [lineNumber |-> n + 1, modifiedLines |-> modified]
    ELSE [lineNumber |-> n, modifiedLines |-> modified]

\* ------------------------------------------------------------------- state
VARIABLES
    version,              \* the revision of the entry point that runs
    ecosystem,            \* core.getInput('package-ecosystem')
    annotateModifiedOnly, \* core.getInput('annotate-modified-only') === 'true'
    pool,                 \* the pool the manifest's lines are drawn from
    requirementsPath,     \* the requirements-path input of the workflow step
    patchLines,           \* stdout of git diff, split, when getModifiedLines parses it
    filePath,             \* the path run() hands to its readers
    pc,                   \* where run() stands
    lines,                \* the manifest's lines, as far as they are fixed
    modifiedLines,        \* what getModifiedLines returned
    lineNumber,           \* lines (or items) the running loop has consumed
    index,                \* "legacy": elements of the filtered array consumed
    inDependencies,       \* getDependenciesWithLineNumbers' flags
    inPipDependencies,
    condaChannel,
    queue,                \* records yielded at the current line, not yet consumed
    records,              \* every record yielded so far
    pending,              \* lookups in flight
    lookups,              \* every fetchPackageScore request made so far
    annotations,          \* every annotation emitted so far: kind, place, name
    last,                 \* the annotation(s) the last step emitted, in full
    failed                \* the causes core.setFailed was called with

vars == <<version, ecosystem, annotateModifiedOnly, pool, requirementsPath, patchLines, filePath,
          pc, lines, modifiedLines, lineNumber, index, inDependencies,
          inPipDependencies, condaChannel, queue, records, pending, lookups,
          annotations, last, failed>>

inputs == <<version, ecosystem, annotateModifiedOnly, pool, requirementsPath, patchLines>>
walker == <<inDependencies, inPipDependencies, condaChannel, queue, records>>

Versions == {"channel", "modified", "legacy", "parsed"}
Ecosystems == {"pip", "conda", "npm"}

\* A run that reads lines by number, or that compares line numbers with the
\* diff, is given its whole manifest at the start; a run that only reads
\* front to back is given it line by line.
Eager(ver, eco, modOnly) ==
    modOnly \/ (ver = "modified" /\ eco = "pip") \/ (ver = "parsed" /\ eco = "conda")

SeqsUpTo(S, n) == UNION {[1..k -> S] : k \in 0..n}

MaxLen(p) == IF p = "channels" THEN MaxChannelLines ELSE MaxLines

\* The strictly increasing sequences of line numbers of a file of n lines.
IncreasingSeqs(n) ==
    {q \in SeqsUpTo(1..n, n) : \A i \in 1..(Len(q) - 1) : q[i] < q[i + 1]}

\* The requirements-path input: absent, or the path of a manifest kept
\* elsewhere (given with the manifests of one pip pool and one conda pool).
NoPath == ""
PathsGiven(p) == IF p \in {"pip", "block"} THEN {NoPath, "ci/deps.txt"} ELSE {NoPath}

\* The literal path run() passes to its readers.
manifestPath(eco) == IF eco = "pip" THEN "requirements.txt" ELSE "environment.yml"

Init ==
    /\ version \in Versions
    /\ ecosystem \in Ecosystems
    /\ annotateModifiedOnly \in (IF version \in {"channel", "parsed"} THEN {FALSE} ELSE BOOLEAN)
    /\ pool \in (IF version = "parsed" THEN ParsedPools(ecosystem) ELSE Pools(ecosystem))
    /\ requirementsPath \in PathsGiven(pool)
    /\ patchLines = <<>>
    /\ filePath = NoPath
    /\ pc = "start"
    /\ lines \in (IF Eager(version, ecosystem, annotateModifiedOnly)
                  THEN {w \in SeqsUpTo(PoolLines(pool), MaxModLines) :
                           w # <<>> => w[1] \in FirstLines(pool)}
                  ELSE {<<>>})
    /\ modifiedLines = <<>>
    /\ lineNumber = 0
    /\ index = 0
    /\ inDependencies = FALSE
    /\ inPipDependencies = FALSE
    /\ condaChannel = NmCondaForge
    /\ queue = <<>>
    /\ records = <<>>
    /\ pending = {}
    /\ lookups = <<>>
    /\ annotations = <<>>
    /\ last = <<>>
    /\ failed = {}

IsEager == Eager(version, ecosystem, annotateModifiedOnly)

\* The text the loop reads as line n, and whether the file may end before it.
NextLines(n) ==
    IF IsEager THEN (IF n <= Len(lines) THEN {lines[n]} ELSE {})
    ELSE (IF Len(lines) >= MaxLen(pool) THEN {}
          ELSE IF lines = <<>> THEN FirstLines(pool) ELSE PoolLines(pool))
AtEnd(n) == IsEager => n > Len(lines)
LinesWith(l) == IF IsEager THEN lines ELSE Append(lines, l)

\* An annotation as the log keeps it, and as `last` keeps it.  The kind is
\* the opening of its message: "package" for `Package N ...` (scored or not
\* found), "lookupError" for `Error looking up package N`, "invalid" for
\* `Invalid package name: N`, "skipped" for `Skipping non-string line`.
Note(kind, located, line, name) ==
    [kind |-> kind, located |-> located, line |-> line, name |-> name]
Full(level, kind, located, line, name) ==
    [level |-> level, kind |-> kind, located |-> located, line |-> line, name |-> name]

\* The annotation of annotatePackage, whose message names the maturity and
\* the health risk it was given.
Scored(level, response, line, name) ==
    [level |-> level, kind |-> response.kind, located |-> TRUE, line |-> line,
     name |-> name, maturity |-> response.maturity, health |-> response.health]

\* annotatePackage up to its await: the request goes out.
Request(packageName, line, eco, channel) ==
    [key |-> fetchKey(version, packageName, eco, channel), lineNumber |-> line,
     ecosystem |-> eco]

EnterWhateverTheRead(loop) ==
    \E readable \in BOOLEAN :
        /\ pc' = loop
        /\ failed' = IF readable THEN failed ELSE failed \cup {"read"}

\* Entering a loop whose first statement reads the file: the read fails or
\* the loop starts.
Enter(loop) ==
    \E readable \in BOOLEAN :
        /\ pc' = IF readable THEN loop ELSE "done"
        /\ failed' = IF readable THEN failed ELSE failed \cup {"read"}

\* ------------------------------------------------------------------ run()
\* run() of the "channel" version.
RunChannel ==
    /\ pc = "start" /\ version = "channel"
    /\ CASE ecosystem = "pip"   -> Enter("lines")
         [] ecosystem = "conda" -> Enter("conda")
         [] OTHER -> pc' = "done" /\ failed' = failed \cup {"unsupported"}
    /\ filePath' = IF ecosystem \in {"pip", "conda"} THEN manifestPath(ecosystem) ELSE filePath
    /\ UNCHANGED <<inputs, walker, lines, modifiedLines, lineNumber, index,
                   pending, lookups, annotations, last>>

RunModifiedDiffFirst ==
    /\ pc = "start" /\ version = "modified"
    /\ IF annotateModifiedOnly THEN pc' = "diff" /\ UNCHANGED failed
       ELSE IF ecosystem \notin {"pip", "conda"}
       THEN pc' = "done" /\ failed' = failed \cup {"unsupported"}
       ELSE IF ecosystem = "pip" THEN Enter("byNumber")
       ELSE Enter("conda")
    /\ filePath' = IF ecosystem \in {"pip", "conda"} THEN manifestPath(ecosystem) ELSE filePath
    /\ UNCHANGED <<inputs, walker, lines, modifiedLines, lineNumber, index,
                   pending, lookups, annotations, last>>

\* run() of the "modified" version, up to its first await.  With no modified
\* lines it calls processPipRequirements (which hands the file's lines to
\* processLines) or processCondaEnvironment.
RunModified ==
    /\ pc = "start" /\ version = "modified"
    /\ IF ecosystem \notin {"pip", "conda"}
       THEN pc' = "done" /\ failed' = failed \cup {"unsupported"}
       ELSE IF annotateModifiedOnly THEN pc' = "diff" /\ UNCHANGED failed
       ELSE IF ecosystem = "pip" THEN Enter("byNumber")
       ELSE Enter("conda")
    /\ filePath' = IF ecosystem \in {"pip", "conda"} THEN manifestPath(ecosystem) ELSE filePath
    /\ UNCHANGED <<inputs, walker, lines, modifiedLines, lineNumber, index,
                   pending, lookups, annotations, last>>

\* run() of the "legacy" version, up to its first await.
RunLegacy ==
    /\ pc = "start" /\ version = "legacy"
    /\ IF ecosystem # "pip"
       THEN pc' = "done" /\ failed' = failed \cup {"unsupported"}
       ELSE IF annotateModifiedOnly THEN pc' = "diff" /\ UNCHANGED failed
       ELSE Enter("forEach")
    /\ filePath' = manifestPath("pip")
    /\ UNCHANGED <<inputs, walker, lines, modifiedLines, lineNumber, index,
                   pending, lookups, annotations, last>>

\* run() of the "parsed" version (src/index.js 340-350).
RunParsed ==
    /\ pc = "start" /\ version = "parsed"
    /\ CASE ecosystem = "pip"   -> Enter("lines")
         [] ecosystem = "conda" -> Enter("load")
         [] OTHER -> pc' = "done" /\ failed' = failed \cup {"unsupported"}
    /\ filePath' = IF ecosystem \in {"pip", "conda"} THEN manifestPath(ecosystem) ELSE filePath
    /\ UNCHANGED <<inputs, walker, lines, modifiedLines, lineNumber, index,
                   pending, lookups, annotations, last>>

\* processCondaEnvironment of the "parsed" version after its read: the
\* manifest is loaded as YAML.  A document with dependencies is handed to
\* processLines line by line; one without marks the run failed ("nodeps":
\* `No dependencies found in <path>`); a text yaml.load rejects lands in the
\* catch ("yaml": `Failed to read <path>: <parser message>`).
LoadDocument ==
    /\ pc = "load"
    /\ CASE yamlLoad(lines) = "present" -> pc' = "lines" /\ UNCHANGED failed
         [] yamlLoad(lines) = "absent"  -> pc' = "done" /\ failed' = failed \cup {"nodeps"}
         [] OTHER                       -> pc' = "done" /\ failed' = failed \cup {"yaml"}
    /\ last' = <<>>
    /\ UNCHANGED <<inputs, filePath, walker, lines, modifiedLines, lineNumber, index,
                   pending, lookups, annotations>>

\* getModifiedLines returns and run() goes on.  It returns the numbers of
\* the added lines of the diff, or, when the base branch is missing or git
\* fails, marks the run failed and returns the empty list (in the "legacy"
\* version a missing pull request makes run() throw instead: the run fails
\* and ends all the same).
GetModifiedLines ==
    /\ pc = "diff"
    /\ \E ok \in BOOLEAN :
       \E modified \in (IF ok THEN IncreasingSeqs(Len(lines)) ELSE {<<>>}) :
          /\ modifiedLines' = modified
          /\ IF version = "modified"
             THEN \E readable \in BOOLEAN :
                    /\ pc' = IF ~readable THEN "done"
                             ELSE IF Len(modified) > 0 \/ ecosystem = "pip" THEN "byNumber"
                             ELSE "conda"
                    /\ failed' = failed \cup (IF ok THEN {} ELSE {"diff"})
                                        \cup (IF readable THEN {} ELSE {"read"})
             ELSE IF Len(modified) = 0
                  THEN pc' = "done" /\ failed' = failed \cup (IF ok THEN {} ELSE {"diff"})
                  ELSE \E readable \in BOOLEAN :
                         /\ pc' = IF readable THEN "forEach" ELSE "done"
                         /\ failed' = failed \cup (IF readable THEN {} ELSE {"read"})
    /\ UNCHANGED <<inputs, filePath, walker, lines, lineNumber, index,
                   pending, lookups, annotations, last>>

\* ------------------------------------------------------------- pip walks
\* One iteration of processLines of the "channel" version and of the
\* "parsed" version, which has the same loop (its loop variable
\* `index` is lineNumber here): the line is skipped, reported as an invalid
\* name, or handed to annotatePackage, which is awaited.
ProcessLinesStep ==
    /\ pc = "lines" /\ pending = {}
    /\ \/ \E line \in NextLines(lineNumber + 1) :
            LET n == lineNumber + 1
                packageName == processPackageLine(line)
            IN  /\ lines' = LinesWith(line)
                /\ lineNumber' = n
                /\ IF trim(line) = <<>> \/ packageName = <<>>
                   THEN UNCHANGED <<pending, lookups, annotations>> /\ last' = <<>>
                   ELSE IF ~isValidPackageName(packageName)
                   THEN /\ annotations' = Append(annotations, Note("invalid", TRUE, n, packageName))
                        /\ last' = <<Full("error", "invalid", TRUE, n, packageName)>>
                        /\ UNCHANGED <<pending, lookups>>
                   ELSE /\ pending' = {Request(packageName, n, "pip", NoChannel)}
                        /\ lookups' = Append(lookups, Request(packageName, n, "pip", NoChannel))
                        /\ last' = <<>>
                        /\ UNCHANGED annotations
                /\ pc' = pc
       \/ /\ AtEnd(lineNumber + 1)
          /\ pc' = "done"
          /\ last' = <<>>
          /\ UNCHANGED <<lines, lineNumber, pending, lookups, annotations>>
    /\ UNCHANGED <<inputs, filePath, walker, modifiedLines, index, failed>>

\* The items processLines of the "modified" version iterates over: the
\* modified line numbers, or, called by processPipRequirements, the lines.
ItemCount == IF modifiedLines # <<>> THEN Len(modifiedLines) ELSE Len(lines)
\* The number the k-th item is used as.
ItemNumber(k) == IF modifiedLines # <<>> THEN modifiedLines[k] ELSE ToNumber(lines[k])

\* One iteration of processLines of the "modified" version.
ByNumberStep ==
    /\ pc = "byNumber" /\ pending = {}
    /\ IF lineNumber < ItemCount
       THEN LET n == ItemNumber(lineNumber + 1)
                defined == n \in 1..Len(lines)
                line == IF defined THEN lines[n] ELSE <<>>
                packageName == processPackageLine(line)
            IN  /\ lineNumber' = lineNumber + 1
                /\ pc' = pc
                /\ IF ~defined
                   THEN /\ annotations' = Append(annotations, Note("skipped", FALSE, 0, <<>>))
                        /\ last' = <<Full("warning", "skipped", FALSE, 0, <<>>)>>
                        /\ UNCHANGED <<pending, lookups>>
                   ELSE IF trim(line) = <<>> \/ packageName = <<>>
                   THEN UNCHANGED <<pending, lookups, annotations>> /\ last' = <<>>
                   ELSE IF ~isValidPackageName(packageName)
                   THEN /\ annotations' = Append(annotations, Note("invalid", TRUE, n, packageName))
                        /\ last' = <<Full("error", "invalid", TRUE, n, packageName)>>
                        /\ UNCHANGED <<pending, lookups>>
                   ELSE /\ pending' = {Request(packageName, n, ecosystem, NoChannel)}
                        /\ lookups' = Append(lookups, Request(packageName, n, ecosystem, NoChannel))
                        /\ last' = <<>>
                        /\ UNCHANGED annotations
       ELSE /\ pc' = "done"
            /\ last' = <<>>
            /\ UNCHANGED <<lineNumber, pending, lookups, annotations>>
    /\ UNCHANGED <<inputs, filePath, walker, lines, modifiedLines, index, failed>>

\* One callback of the forEach of the "legacy" run(): the array is the file's
\* lines with the empty ones filtered out, lineNumber is the position in
\* that array (index here), and annotatePackage is not awaited.
ForEachStep ==
    /\ pc = "forEach"
    /\ \/ \E line \in NextLines(lineNumber + 1) :
            LET n == index + 1
                packageName == processPackageLine(line)
            IN  /\ lines' = LinesWith(line)
                /\ lineNumber' = lineNumber + 1
                /\ pc' = pc
                /\ IF line = <<>>
                   THEN UNCHANGED <<index, pending, lookups, annotations>> /\ last' = <<>>
                   ELSE /\ index' = n
                        /\ IF packageName = <<>>
                           THEN UNCHANGED <<pending, lookups, annotations>> /\ last' = <<>>
                           ELSE IF ~isValidPackageName(packageName)
                           THEN /\ annotations' = Append(annotations, Note("invalid", TRUE, n, packageName))
                                /\ last' = <<Full("error", "invalid", TRUE, n, packageName)>>
                                /\ UNCHANGED <<pending, lookups>>
                           ELSE IF ~annotateModifiedOnly \/ \E i \in 1..Len(modifiedLines) : modifiedLines[i] = n
                           THEN /\ pending' = pending \cup {Request(packageName, n, "pip", NoChannel)}
                                /\ lookups' = Append(lookups, Request(packageName, n, "pip", NoChannel))
                                /\ last' = <<>>
                                /\ UNCHANGED annotations
                           ELSE UNCHANGED <<pending, lookups, annotations>> /\ last' = <<>>
       \/ /\ AtEnd(lineNumber + 1)
          /\ pc' = "done"
          /\ last' = <<>>
          /\ UNCHANGED <<lines, lineNumber, index, pending, lookups, annotations>>
    /\ UNCHANGED <<inputs, filePath, walker, modifiedLines, failed>>

\* ------------------------------------------------------------- conda walk
\* getDependenciesWithLineNumbers runs to its next yield or to the end of
\* the line: one iteration of its for loop.
GeneratorStep ==
    /\ pc = "conda" /\ pending = {} /\ queue = <<>>
    /\ \/ \E line \in NextLines(lineNumber + 1) :
            LET r == walkLine(version, inDependencies, inPipDependencies, condaChannel,
                              line, lineNumber + 1)
            IN  /\ lines' = LinesWith(line)
                /\ lineNumber' = lineNumber + 1
                /\ inDependencies' = r.inDependencies
                /\ inPipDependencies' = r.inPipDependencies
                /\ condaChannel' = r.condaChannel
                /\ queue' = r.yields
                /\ records' = records \o r.yields
                /\ pc' = pc
       \/ /\ AtEnd(lineNumber + 1)
          /\ pc' = "done"
          /\ UNCHANGED <<lines, lineNumber, walker>>
    /\ last' = <<>>
    /\ UNCHANGED <<inputs, filePath, modifiedLines, index, pending, lookups, annotations, failed>>

\* The body of the for await loop of processCondaEnvironment, up to its
\* await: the record is dropped or handed to annotatePackage.
ConsumeRecord ==
    /\ pc = "conda" /\ pending = {} /\ queue # <<>>
    /\ LET dep == Head(queue)
           packageName == stripVersion(dep.dependency)
       IN  /\ queue' = Tail(queue)
           /\ IF packageName # <<>> /\ isValidPackageName(packageName)
              THEN /\ pending' = {Request(packageName, dep.lineNumber, dep.ecosystem, dep.channel)}
                   /\ lookups' = Append(lookups, Request(packageName, dep.lineNumber, dep.ecosystem, dep.channel))
              ELSE UNCHANGED <<pending, lookups>>
    /\ last' = <<>>
    /\ UNCHANGED <<inputs, filePath, pc, lines, modifiedLines, lineNumber, index, inDependencies,
                   inPipDependencies, condaChannel, records, annotations, failed>>

\* ------------------------------------------------------------ annotation
FetchReturnsRethrows ==
    /\ pending # {}
    /\ version = "legacy" => pc = "done"
    /\ \E request \in pending, response \in ResponsesOf(pool) :
          /\ pending' = pending \ {request}
          /\ annotations' = Append(annotations,
                 Note(IF response.kind = "failure" THEN "lookupError" ELSE "package",
                      TRUE, request.lineNumber, request.key.packageName))
          /\ last' = <<Scored(annotationLevel(version, response), response,
                              request.lineNumber, request.key.packageName)>>
          /\ pc' = IF response.kind = "failure" THEN "done" ELSE pc
          /\ failed' = IF response.kind = "failure" THEN failed \cup {"lookup"} ELSE failed
    /\ UNCHANGED <<inputs, filePath, walker, lines, modifiedLines, lineNumber, index,
                   lookups>>

FetchReturnsSilentNotFound ==
    /\ pending # {}
    /\ version = "legacy" => pc = "done"
    /\ \E request \in pending, response \in ResponsesOf(pool) :
          /\ pending' = pending \ {request}
          /\ IF response.kind = "nosource"
             THEN annotations' = annotations /\ last' = <<>>
             ELSE /\ annotations' = Append(annotations,
                         Note(IF response.kind = "failure" THEN "lookupError" ELSE "package",
                              TRUE, request.lineNumber, request.key.packageName))
                  /\ last' = <<Scored(annotationLevel(version, response), response,
                                      request.lineNumber, request.key.packageName)>>
    /\ UNCHANGED <<inputs, filePath, walker, pc, lines, modifiedLines, lineNumber, index,
                   lookups, failed>>

\* A lookup in flight returns and annotatePackage emits its annotation.  The
\* forEach of the "legacy" version is synchronous: its lookups return only
\* after run() has returned.
FetchReturns ==
    /\ pending # {}
    /\ version = "legacy" => pc = "done"
    /\ \E request \in pending, response \in ResponsesOf(pool) :
          /\ pending' = pending \ {request}
          /\ annotations' = Append(annotations,
                 Note(IF response.kind = "failure" THEN "lookupError" ELSE "package",
                      TRUE, request.lineNumber, request.key.packageName))
          /\ last' = <<Scored(annotationLevel(version, response), response,
                              request.lineNumber, request.key.packageName)>>
    /\ UNCHANGED <<inputs, filePath, walker, pc, lines, modifiedLines, lineNumber, index,
                   lookups, failed>>

\* ------------------------------------------------- getModifiedLines alone
\* The patches getModifiedLines is given: no difference, or one hunk.
Patches ==
    {<<LnBlank>>}
    \cup {PatchOf(before, b) : before \in 0..1,
                               b \in {q \in SeqsUpTo(PatchKinds, MaxPatchBody) : WellFormedBody(q)}}

\* getModifiedLines has its diff and starts to parse it.
DiffInit ==
    /\ version = "modified"
    /\ ecosystem = "pip"
    /\ annotateModifiedOnly = TRUE
    /\ pool = "patch"
    /\ requirementsPath = NoPath
    /\ patchLines \in Patches
    /\ filePath = manifestPath("pip")
    /\ pc = "patch"
    /\ lines = <<>>
    /\ modifiedLines = <<>>
    /\ lineNumber = 0
    /\ index = 0
    /\ inDependencies = FALSE
    /\ inPipDependencies = FALSE
    /\ condaChannel = NmCondaForge
    /\ queue = <<>>
    /\ records = <<>>
    /\ pending = {}
    /\ lookups = <<>>
    /\ annotations = <<>>
    /\ last = <<>>
    /\ failed = {}

\* One iteration of the for loop of getModifiedLines (`index` counts the
\* patch lines consumed).
ParsePatchLine ==
    /\ pc = "patch" /\ index < Len(patchLines)
    /\ LET r == parsePatchLine(lineNumber, modifiedLines, patchLines[index + 1])
       IN  /\ lineNumber' = r.lineNumber
           /\ modifiedLines' = r.modifiedLines
    /\ index' = index + 1
    /\ UNCHANGED <<inputs, filePath, pc, lines, walker, pending, lookups, annotations,
                   last, failed>>

\* getModifiedLines returns modifiedLines.
ReturnModifiedLines ==
    /\ pc = "patch" /\ index = Len(patchLines)
    /\ pc' = "done"
    /\ UNCHANGED <<inputs, filePath, lines, modifiedLines, lineNumber, index, walker,
                   pending, lookups, annotations, last, failed>>

DiffNext ==
    \/ ParsePatchLine
    \/ ReturnModifiedLines

DiffSpec == DiffInit /\ [][DiffNext]_vars

\* ------------------------------------------------- annotatePackage alone
\* annotatePackage has been called for the first line of a pip manifest and
\* awaits the answer of the service, which may be any classification.
LevelInit ==
    /\ version \in {"channel", "modified", "legacy"}
    /\ ecosystem = "pip"
    /\ annotateModifiedOnly = (version = "modified")
    /\ pool = "scores"
    /\ requirementsPath = NoPath
    /\ patchLines = <<>>
    /\ filePath = manifestPath("pip")
    /\ pc = (CASE version = "channel" -> "lines"
               [] version = "modified" -> "byNumber"
               [] OTHER -> "done")
    /\ lines \in {<<LnFlaskPin>>, <<LnRequests>>}
    /\ modifiedLines = (IF version = "modified" THEN <<1>> ELSE <<>>)
    /\ lineNumber = 1
    /\ index = (IF version = "legacy" THEN 1 ELSE 0)
    /\ inDependencies = FALSE
    /\ inPipDependencies = FALSE
    /\ condaChannel = NmCondaForge
    /\ queue = <<>>
    /\ records = <<>>
    /\ pending = {Request(processPackageLine(lines[1]), 1, "pip", NoChannel)}
    /\ lookups = <<Request(processPackageLine(lines[1]), 1, "pip", NoChannel)>>
    /\ annotations = <<>>
    /\ last = <<>>
    /\ failed = {}

LevelNext == FetchReturns

LevelSpec == LevelInit /\ [][LevelNext]_vars

Next ==
    \/ RunChannel
    \/ RunModified
    \/ RunLegacy
    \/ RunParsed
    \/ LoadDocument
    \/ GetModifiedLines
    \/ ProcessLinesStep
    \/ ByNumberStep
    \/ ForEachStep
    \/ GeneratorStep
    \/ ConsumeRecord
    \/ FetchReturns

Spec == Init /\ [][Next]_vars

\* ================================================================ claims
\* The lines the running loop has read.
Walked == SubSeq(lines, 1, lineNumber)
\* A conda manifest walked front to back by getDependenciesWithLineNumbers.
CondaWalk ==
    /\ ecosystem = "conda" /\ version \in {"channel", "modified"}
    /\ modifiedLines = <<>> /\ pc \in {"conda", "done"}
\* A pip manifest walked front to back.
PipWalk(ver) ==
    /\ ecosystem = "pip" /\ version = ver /\ ~annotateModifiedOnly
    /\ pc \in {"lines", "forEach", "done"}
\* The run is over and nothing is in flight.
Finished == pc = "done" /\ pending = {} /\ queue = <<>>
\* The run is over and it read its manifest to the end.
WalkedAll == Finished /\ "read" \notin failed /\ lineNumber = Len(lines)

Indent(line) == Len(line) - Len(trimStart(line))
IsDash(line) == startsWith(trim(line), KwDash)
RecordsAt(i) == SelectSeq(records, LAMBDA r : r.lineNumber = i)
\* A lookup as (name, registry, line).
Looked(l) == <<l.key.packageName, l.key.registry, l.lineNumber>>
LookupList == [i \in 1..Len(lookups) |-> Looked(lookups[i])]
LookupSet == {Looked(lookups[i]) : i \in 1..Len(lookups)}

\* The block-form entries of the pools and the names they declare.
BlockEntries == {LnNumpy, LnFlask, LnSamtools, LnPinned, LnInvalid,
                 LnCondaForge, LnBioconda, LnDefaults}
EntryName(line) ==
    CASE line = LnNumpy -> NmNumpy [] line = LnFlask -> NmFlask
      [] line = LnSamtools -> NmSamtools [] line = LnPinned -> NmNumpy
      [] line = LnInvalid -> NmMyPkg [] line = LnCondaForge -> NmCondaForge
      [] line = LnBioconda -> NmBioconda [] line = LnDefaults -> NmDefaults

DepsBefore(w, i) == \E j \in 1..(i - 1) : trim(w[j]) = KwDependencies
PipMarker(w, j) == DepsBefore(w, j) /\ trim(w[j]) = KwPip
\* Line i is a block-form entry nested under a `- pip:` line: every line
\* from the marker to it is a deeper-indented entry.
UnderPip(w, i) ==
    \E j \in 1..(i - 1) :
        /\ PipMarker(w, j)
        /\ \A k \in (j + 1)..i : IsDash(w[k]) /\ Indent(w[k]) > Indent(w[j])

ExampleP4 == <<LnDependencies, LnNumpy, LnPip, LnFlask>>

ExampleP3 == <<LnFlaskPin, LnComment, LnBlank, LnRequests>>

\* C2: in a pip walk every lookup and every located diagnostic carries the
\* 1-based index, in the file's text, of the line it comes from: that line
\* reduces to the name looked up or reported, so blank, comment and `-`
\* lines have none; the example is looked up as flask at 1 and requests at 4.
C2_PipLineNumbers ==
    (PipWalk("channel") \/ PipWalk("legacy")) =>
        /\ \A k \in 1..Len(lookups) :
              /\ lookups[k].lineNumber \in 1..Len(Walked)
              /\ processPackageLine(Walked[lookups[k].lineNumber]) = lookups[k].key.packageName
        /\ \A k \in 1..Len(annotations) :
              annotations[k].located =>
                 /\ annotations[k].line \in 1..Len(Walked)
                 /\ processPackageLine(Walked[annotations[k].line]) = annotations[k].name
        /\ (WalkedAll /\ lines = ExampleP3)
           => LookupList = << <<NmFlask, "pypi", 1>>, <<NmRequests, "pypi", 4>> >>

\* C3: a record has ecosystem pip only while every line since the `- pip:`
\* line is indented deeper than that line; a `-` line at the `- pip:` line's
\* own indentation that follows the pip entries is a conda record.
C3_PipBlockEndsAtIndent ==
    CondaWalk =>
        \A k \in 1..Len(records) :
            LET i == records[k].lineNumber
            IN  records[k].ecosystem = "pip" =>
                    \E j \in 1..(i - 1) :
                        /\ PipMarker(Walked, j)
                        /\ \A m \in (j + 1)..i : Indent(Walked[m]) > Indent(Walked[j])

\* C4: a `dependencies: [a, b]` line yields one conda record per entry, and a
\* `- pip: [a, b]` line inside the dependencies section one pip record per
\* entry, all with the line's number.
C4_FlowOnMarkerLine ==
    CondaWalk =>
        \A i \in 1..Len(Walked) :
            /\ Walked[i] = LnDepsFlow
               => [k \in 1..Len(RecordsAt(i)) |->
                       <<RecordsAt(i)[k].dependency, RecordsAt(i)[k].ecosystem>>]
                  = << <<NmNumpy, "conda">>, <<NmPandas, "conda">> >>
            /\ (Walked[i] = LnPipFlow /\ DepsBefore(Walked, i))
               => [k \in 1..Len(RecordsAt(i)) |->
                       <<RecordsAt(i)[k].dependency, RecordsAt(i)[k].ecosystem>>]
                  = << <<NmFlask, "pip">>, <<NmRequests, "pip">> >>

ExampleP6 == <<LnChannels, LnCondaForge, LnBioconda, LnDependencies, LnSamtools>>

\* The manifest w opens with a channels: block listing conda-forge then
\* bioconda and nothing else, before its first dependencies: line, line d.
ListsCondaForgeThenBioconda(w, d) ==
    /\ trim(w[d]) = KwDependencies
    /\ \A j \in 1..(d - 1) : trim(w[j]) # KwDependencies
    /\ SelectSeq(SubSeq(w, 1, d - 1), IsDash) = <<LnCondaForge, LnBioconda>>
    /\ \E c \in 1..(d - 1) :
          /\ startsWith(trim(w[c]), KwChannels)
          /\ \A j \in 1..(c - 1) : ~IsDash(w[j])

RECURSIVE FirstListedChannel(_, _)
FirstListedChannel(w, n) ==
    IF n = 0 THEN [inBlock |-> FALSE, chosen |-> FALSE, channel |-> NmCondaForge]
    ELSE LET s == FirstListedChannel(w, n - 1)
             t == trim(w[n])
         IN  IF startsWith(t, KwChannels)
             THEN [inBlock |-> TRUE, chosen |-> FALSE, channel |-> s.channel]
             ELSE IF ~IsDash(w[n]) THEN [s EXCEPT !.inBlock = FALSE]
             ELSE IF s.inBlock /\ ~s.chosen /\ substringFrom(t, 2) # NmDefaults
             THEN [inBlock |-> TRUE, chosen |-> TRUE, channel |-> substringFrom(t, 2)]
             ELSE s

\* C6: the active channel is the first entry other than defaults of a
\* channels: block; later entries of the block and `-` lines outside a
\* channels: block leave it as it is.
C6_FirstListedChannelWins ==
    (CondaWalk /\ version = "channel")
    => condaChannel = FirstListedChannel(Walked, Len(Walked)).channel

\* C7: in pip and in conda processing alike, a line whose token is my@pkg is
\* reported by an error-level diagnostic at its line (and the walk goes on
\* to the end of the file).
C7_InvalidNameReported ==
    (WalkedAll /\ ((CondaWalk /\ version = "channel") \/ PipWalk("channel")))
    => \A i \in 1..Len(lines) :
          ((ecosystem = "pip" /\ lines[i] = LnMyPkg)
             \/ (ecosystem = "conda" /\ lines[i] = LnInvalid /\ DepsBefore(lines, i)))
          => \E k \in 1..Len(annotations) :
                annotations[k] = Note("invalid", TRUE, i, NmMyPkg)

\* C8: on every path (pip walk, conda walk, modified lines only, in every
\* version) a name handed to the scoring lookup is non-empty and made of
\* letters, digits, `.`, `_` and `-` only.
C8_LookupNamesValid ==
    \A k \in 1..Len(lookups) :
        LET name == lookups[k].key.packageName
        IN  name # <<>> /\ \A c \in 1..Len(name) : name[c] \in NameChars

\* C8 witness: a modified-lines-only run met an invalid name, reported it,
\* and looked another package up.
C8_Witness ==
    /\ version = "modified" /\ annotateModifiedOnly /\ Len(modifiedLines) = 2
    /\ Finished /\ Len(lookups) = 1
    /\ \E k \in 1..Len(annotations) : annotations[k].kind = "invalid"

ModifiedSet == {modifiedLines[i] : i \in 1..Len(modifiedLines)}

\* C9: with annotate-modified-only set, every annotation that has a file
\* location is on a modified line, and when no line is modified no package
\* is looked up or annotated.
C9_OnlyModifiedLinesAnnotated ==
    (annotateModifiedOnly /\ pc \notin {"start", "diff"})
    => /\ \A k \in 1..Len(annotations) :
             annotations[k].located => annotations[k].line \in ModifiedSet
       /\ modifiedLines = <<>>
          => /\ lookups = <<>>
             /\ \A k \in 1..Len(annotations) : annotations[k].kind # "package"

\* What the full walk of the manifest looks up, as (name, registry, line).
FullWalkLookups ==
    IF ecosystem = "pip"
    THEN {<<processPackageLine(lines[i]), "pypi", i>> :
             i \in {j \in 1..Len(lines) : isValidPackageName(processPackageLine(lines[j]))}}
    ELSE LET ys == walkAll(version, lines, Len(lines)).yields
         IN  {<<stripVersion(ys[k].dependency),
                IF ys[k].ecosystem = "pip" THEN "pypi" ELSE "conda",
                ys[k].lineNumber>> :
                 k \in {j \in 1..Len(ys) : isValidPackageName(stripVersion(ys[j].dependency))}}

\* C10: in modified-lines-only mode the lookups are exactly the lookups of
\* the full walk whose line is a modified line, with the name and ecosystem
\* the full walk gives them.
C10_ModifiedIsFilteredFullWalk ==
    (version = "modified" /\ annotateModifiedOnly /\ modifiedLines # <<>>
       /\ Finished /\ "read" \notin failed)
    => LookupSet = {l \in FullWalkLookups : l[3] \in ModifiedSet}

\* C11: in pip mode without annotate-modified-only, once a readable
\* requirements file has been processed the run is not marked failed and
\* every line that reduces to a valid name N has exactly one annotation whose
\* message opens with `Package N`.
C11_PipEveryNameAnnotated ==
    (ecosystem = "pip" /\ ~annotateModifiedOnly /\ WalkedAll)
    => /\ failed = {}
       /\ \A i \in 1..Len(lines) :
             LET N == processPackageLine(lines[i])
             IN  isValidPackageName(N)
                 => Cardinality({k \in 1..Len(annotations) :
                                    annotations[k].kind = "package" /\ annotations[k].name = N})
                    = Cardinality({j \in 1..Len(lines) : processPackageLine(lines[j]) = N})

\* C12: the manifest that is read is the file the requirements-path input
\* names, and requirements.txt (pip) or environment.yml (conda) only when
\* the input is absent.
C12_RequirementsPathRead ==
    filePath # NoPath
    => filePath = (IF requirementsPath # NoPath THEN requirementsPath
                   ELSE manifestPath(ecosystem))

\* C13: a run with package-ecosystem conda reads and walks no manifest and
\* ends marked failed with `Unsupported package ecosystem`.
C13_CondaUnsupported ==
    ecosystem = "conda"
    => /\ pc \in {"start", "done"}
       /\ lineNumber = 0 /\ records = <<>> /\ lookups = <<>>
       /\ pc = "done" => failed = {"unsupported"}

\* Line c of w closes the dependencies section: the section has been
\* entered and the line is not blank, not a `-` line and not a marker.
ClosesSection(w, c) ==
    /\ DepsBefore(w, c)
    /\ trim(w[c]) # <<>> /\ ~IsDash(w[c])
    /\ ~startsWith(trim(w[c]), KwDependencies) /\ ~startsWith(trim(w[c]), KwChannels)

\* C14: once the dependencies section has been entered, no `-` line that
\* follows a closing line yields a record, unless a `dependencies:` line
\* lies between the two.
C14_SectionClosed ==
    CondaWalk =>
        \A k \in 1..Len(records) :
            LET i == records[k].lineNumber
            IN  ~\E c \in 1..(i - 1) :
                    /\ ClosesSection(Walked, c)
                    /\ \A j \in (c + 1)..(i - 1) : trim(Walked[j]) # KwDependencies

\* C15: reading a blank line of a conda manifest leaves inDependencies,
\* inPipDependencies and the channel as they were.
C15_BlankLineKeepsState ==
    [][(pc = "conda" /\ lineNumber' = lineNumber + 1 /\ trim(lines'[lineNumber']) = <<>>)
       => /\ inDependencies' = inDependencies
          /\ inPipDependencies' = inPipDependencies
          /\ condaChannel' = condaChannel]_vars

\* Line i of w is an entry of a channels: block: a `-` line with a
\* channels: line before it and only `-` lines in between.
InChannelsBlock(w, i) ==
    /\ IsDash(w[i])
    /\ \E c \in 1..(i - 1) :
          /\ startsWith(trim(w[c]), KwChannels)
          /\ \A j \in (c + 1)..(i - 1) : IsDash(w[j])

\* C16: no entry of a channels: block yields a dependency record, wherever
\* the block stands in the manifest.
C16_ChannelEntriesYieldNothing ==
    CondaWalk =>
        \A k \in 1..Len(records) : ~InChannelsBlock(Walked, records[k].lineNumber)

NonDecreasing(q) == \A i \in 1..(Len(q) - 1) : q[i] <= q[i + 1]
LocatedLines ==
    LET located == SelectSeq(annotations, LAMBDA a : a.located)
    IN  [k \in 1..Len(located) |-> located[k].line]

InPipSubBlock(w, i) ==
    \E j \in 1..(i - 1) :
        /\ PipMarker(w, j)
        /\ \A m \in (j + 1)..i : trim(w[m]) = <<>> \/ Indent(w[m]) > Indent(w[j])

\* C18: in a conda walk a record has ecosystem pip only if its line lies
\* inside a pip sub-block that is still open at that line; every other
\* record has ecosystem conda.
C18_PipOnlyInsideSubBlock ==
    CondaWalk =>
        \A k \in 1..Len(records) :
            /\ records[k].ecosystem \in {"pip", "conda"}
            /\ records[k].ecosystem = "pip" => InPipSubBlock(Walked, records[k].lineNumber)

\* The name a raw token stands for: the inline comment removed, the rest
\* cut at the first of < > = ~ !, and trimmed.
NormalisedName(token) == trim(splitFirst(trim(splitFirst(token, {"#"})), VersionChars))

\* C19: the name of a record is the normalised name of its raw token, for pip
\* lines and for conda entries alike: what is looked up for a pip line is
\* the normalised name of the line, the name of a conda record is the
\* normalised name of the text after its `- `, and a conda record whose
\* normalised name is valid is looked up under it.
C19_NameNormalised ==
    /\ PipWalk("channel")
       => \A k \in 1..Len(lookups) :
             lookups[k].key.packageName = NormalisedName(Walked[lookups[k].lineNumber])
    /\ CondaWalk
       => \A k \in 1..Len(records) :
             LET name == NormalisedName(records[k].dependency)
             IN  /\ stripVersion(records[k].dependency) = name
                 /\ (WalkedAll /\ isValidPackageName(name))
                    => \E l \in 1..Len(lookups) :
                          /\ lookups[l].key.packageName = name
                          /\ lookups[l].lineNumber = records[k].lineNumber

\* The lookups that have been answered, in the order of their annotations.
AnnotatedLookups ==
    LET answered == SelectSeq(annotations, LAMBDA a : a.kind \in {"package", "lookupError"})
    IN  [k \in 1..Len(answered) |-> <<answered[k].name, answered[k].line>>]
RequestedLookups ==
    [k \in 1..Len(lookups) |-> <<lookups[k].key.packageName, lookups[k].lineNumber>>]

\* C20: records are processed one at a time: at most one scoring lookup is
\* in flight, a lookup is answered and annotated before the next is made
\* (so the annotations follow the order of the records), and run() is not
\* over while a lookup is still in flight.
C20_OneLookupAtATime ==
    /\ Cardinality(pending) <= 1
    /\ Len(AnnotatedLookups) + Cardinality(pending) = Len(RequestedLookups)
    /\ AnnotatedLookups = SubSeq(RequestedLookups, 1, Len(AnnotatedLookups))
    /\ pc = "done" => pending = {}

\* A flow list that is never closed.
Malformed(line) == startsWith(trim(line), KwFlow) /\ indexOf(line, "]") = -1

\* What is left of a conda walk: the lines not yet read (each yields at most
\* three records), the records yielded and not yet consumed, the lookup in
\* flight and the return of the walk.
LongestManifest == Max(MaxLines, Max(MaxChannelLines, MaxModLines))
WalkLeft ==
    8 * (LongestManifest - lineNumber) + 2 * Len(queue) + Cardinality(pending)
      + (IF pc = "done" THEN 0 ELSE 1)

\* C21: a conda walk visits the lines one by one and every step brings it
\* nearer to its end, whatever the lines hold; the content of the manifest
\* never marks the run failed; nothing is looked up from an unclosed flow
\* list; and a well-formed flow list that follows one is looked up entry by
\* entry.
C21_MalformedTolerated ==
    /\ [](CondaWalk
            => /\ failed \subseteq {"read", "diff"}
               /\ lineNumber <= Len(lines)
               /\ \A k \in 1..Len(lookups) : ~Malformed(Walked[lookups[k].lineNumber])
               /\ WalkedAll
                  => \A i \in 1..Len(lines) :
                        (lines[i] = LnFlow /\ DepsBefore(lines, i)
                           /\ \E j \in 1..(i - 1) : Malformed(lines[j]))
                        => SelectSeq(LookupList, LAMBDA l : l[3] = i)
                           = << <<NmNumpy, "conda", i>>, <<NmPandas, "conda", i>> >>)
    /\ [][(CondaWalk /\ pc = "conda")
            => /\ lineNumber' \in {lineNumber, lineNumber + 1}
               /\ WalkLeft' < WalkLeft /\ WalkLeft' >= 0]_vars

\* C21 witness: a walk has read an unclosed flow list inside the
\* dependencies section, then a well-formed one, and has ended.
C21_Witness ==
    /\ CondaWalk /\ WalkedAll /\ failed = {}
    /\ lines = <<LnDependencies, LnFlowOpen, LnFlow>>
    /\ Len(lookups) = 2 /\ Len(annotations) = 2

\* Every entry of a channels: block among the lines w is `defaults` (so
\* also when w has no channels: block).
OnlyDefaultsListed(w) ==
    \A i \in 1..Len(w) : InChannelsBlock(w, i) => trim(w[i]) = KwDash \o <<" ">> \o NmDefaults

\* C22: when the manifest has no channels: block, or its blocks list only
\* defaults, every conda record carries channel conda-forge and every lookup
\* of a conda record asks for channel conda-forge.
C22_DefaultChannelCondaForge ==
    (CondaWalk /\ version = "channel" /\ OnlyDefaultsListed(Walked))
    => /\ \A k \in 1..Len(records) :
             records[k].ecosystem = "conda" => records[k].channel = NmCondaForge
       /\ \A k \in 1..Len(lookups) :
             lookups[k].ecosystem = "conda" => lookups[k].key.channel = NmCondaForge

\* The manifest has no dependencies: section.
NoDependencies(w) == \A i \in 1..Len(w) : ~startsWith(trim(w[i]), KwDependencies)
\* The manifest has no text.
EmptyBody(w) == \A i \in 1..Len(w) : trim(w[i]) = <<>>

\* C23: a run that has read a manifest with an empty body, or a conda
\* manifest with no dependencies, has produced no record, no lookup and no
\* annotation, and is not marked failed.
C23_NothingFromEmptyManifest ==
    (Finished /\ version \in {"channel", "parsed"} /\ "read" \notin failed
       /\ \/ ecosystem \in {"pip", "conda"} /\ EmptyBody(lines)
          \/ ecosystem = "conda" /\ NoDependencies(lines))
    => /\ records = <<>> /\ lookups = <<>> /\ annotations = <<>>
       /\ failed = {}

\* C24: in the "channel" version a run whose manifest cannot be read is
\* marked failed for the file run() named, has ended, and has looked up and
\* annotated nothing; and a run is marked failed for nothing but the
\* unreadable manifest or the unsupported ecosystem, whatever its lines are.
C24_UnreadableManifest ==
    version = "channel"
    => /\ failed \subseteq {"read", "unsupported"}
       /\ "unsupported" \in failed => ecosystem \notin {"pip", "conda"}
       /\ "read" \in failed
          => /\ ecosystem \in {"pip", "conda"} /\ filePath = manifestPath(ecosystem)
             /\ pc = "done" /\ pending = {} /\ queue = <<>>
             /\ lines = <<>> /\ records = <<>> /\ lookups = <<>> /\ annotations = <<>>
       /\ (Finished /\ lines # <<>>) => failed = {}

\* C24 witness: a conda run has ended on its unreadable manifest, marked
\* failed for it and with nothing looked up.
C24_Witness ==
    /\ version = "channel" /\ ecosystem = "conda" /\ pc = "done"
    /\ failed = {"read"} /\ filePath = manifestPath("conda") /\ lookups = <<>>

\* C25: when package-ecosystem is neither pip nor conda, run() of the two
\* versions of index.mjs marks the run failed as unsupported and ends: no
\* diff is computed, no manifest read, nothing looked up, nothing annotated.
C25_UnsupportedEcosystem ==
    (version \in {"channel", "modified"} /\ ecosystem \notin {"pip", "conda"})
    => /\ pc \in {"start", "done"}
       /\ pc = "done" => failed = {"unsupported"}
       /\ pc = "start" => failed = {}
       /\ filePath = NoPath /\ modifiedLines = <<>> /\ lineNumber = 0
       /\ records = <<>> /\ pending = {} /\ lookups = <<>> /\ annotations = <<>>

\* C25 witness: run() has returned for package-ecosystem npm with
\* annotate-modified-only set.
C25_Witness ==
    /\ version = "modified" /\ ecosystem = "npm" /\ annotateModifiedOnly
    /\ pc = "done" /\ failed = {"unsupported"}

\* The new-file numbers of the added lines of a patch: a hunk header sets
\* the number of the next line of the new file, whatever the form of its
\* ranges; added and unchanged lines of a hunk take one number each.
NewStart(header) ==
    LET plus == indexOf(header, "+") + 2
    IN  DecimalValue(SubSeq(header, plus, plus + digitRun(header, plus) - 1))
RECURSIVE AddedLines(_, _)
AddedLines(patch, k) ==
    IF k = 0 THEN [inHunk |-> FALSE, next |-> 0, added |-> <<>>]
    ELSE LET s == AddedLines(patch, k - 1)
             line == patch[k]
         IN  IF startsWith(line, KwHunk)
             THEN [inHunk |-> TRUE, next |-> NewStart(line), added |-> s.added]
             ELSE IF s.inHunk /\ charAt(line, 1) = "+"
             THEN [s EXCEPT !.next = s.next + 1, !.added = Append(s.added, s.next)]
             ELSE IF s.inHunk /\ charAt(line, 1) = " "
             THEN [s EXCEPT !.next = s.next + 1]
             ELSE s

\* C26: what getModifiedLines returns for a well-formed patch is the list of
\* the new-file numbers of its added lines, in increasing order, whatever
\* the form of the hunk header and with or without no-newline markers.
C26_ModifiedLinesExact ==
    (pool = "patch" /\ pc = "done")
    => /\ modifiedLines = AddedLines(patchLines, Len(patchLines)).added
       /\ \A i \in 1..(Len(modifiedLines) - 1) : modifiedLines[i] < modifiedLines[i + 1]

\* The annotations annotatePackage emitted.
FromLookups == SelectSeq(annotations, LAMBDA a : a.kind \in {"package", "lookupError"})
\* The name a manifest line or a record is looked up by, <<>> if by none.
LookedUpAs(token) == IF token # <<>> /\ isValidPackageName(token) THEN token ELSE <<>>
LevelNames == {"notice", "warning", "error"}

\* C27: in the "channel" version a lookup that fails gives one error-level
\* annotation at the line of its record, leaves the run unfailed and the
\* loop where it was; and at the end of the walk every line (pip) or record
\* (conda) with a valid name has its lookup and its annotation, those after
\* a failed lookup included.
C27_LookupFailureContained ==
    /\ []((version = "channel" /\ pool # "patch")
           => /\ \A k \in 1..Len(last) :
                    last[k].kind = "failure"
                    => /\ last[k].level = "error" /\ last[k].located
                       /\ last[k].line = lookups[Len(lookups)].lineNumber
                       /\ annotations[Len(annotations)]
                            = Note("lookupError", TRUE, last[k].line, last[k].name)
              /\ (\E k \in 1..Len(annotations) : annotations[k].kind = "lookupError")
                 => failed = {}
              /\ (WalkedAll /\ ecosystem = "pip")
                 => \A i \in 1..Len(lines) :
                       LookedUpAs(processPackageLine(lines[i])) # <<>>
                       => /\ \E k \in 1..Len(lookups) : lookups[k].lineNumber = i
                          /\ \E k \in 1..Len(FromLookups) : FromLookups[k].line = i
              /\ (WalkedAll /\ ecosystem = "conda")
                 => /\ Len(lookups) = Len(SelectSeq(records,
                           LAMBDA r : LookedUpAs(stripVersion(r.dependency)) # <<>>))
                    /\ Len(FromLookups) = Len(lookups))
    /\ [][(version = "channel" /\ pool # "patch" /\ pending # {} /\ pending' = {})
            => pc' = pc /\ failed' = failed /\ lineNumber' = lineNumber]_vars

\* C27 witness: a pip walk has ended unfailed after the lookup of its first
\* line failed and a later line was looked up and annotated.
C27_Witness ==
    /\ PipWalk("channel") /\ WalkedAll /\ failed = {}
    /\ Len(annotations) = 2 /\ Len(lookups) = 2
    /\ annotations[1].kind = "lookupError" /\ annotations[1].line = 1
    /\ annotations[2].kind = "package" /\ annotations[2].line > 1

\* C28: every lookup that returns adds exactly one annotation, at the line
\* and for the name annotatePackage was called with, at one of the three
\* levels, whatever the answer; so the annotations of annotatePackage and
\* the lookups in flight always add up to the lookups made.
C28_OneAnnotationPerCall ==
    /\ [](pool # "patch"
           => /\ Len(FromLookups) + Cardinality(pending) = Len(lookups)
              /\ \A k \in 1..Len(FromLookups) :
                    /\ FromLookups[k].located
                    /\ \E j \in 1..Len(lookups) :
                          /\ lookups[j].lineNumber = FromLookups[k].line
                          /\ lookups[j].key.packageName = FromLookups[k].name)
    /\ [][(pool # "patch" /\ pending' # pending /\ pending' \subseteq pending)
            => \E request \in pending :
                  /\ pending' = pending \ {request}
                  /\ Len(annotations') = Len(annotations) + 1
                  /\ SubSeq(annotations', 1, Len(annotations)) = annotations
                  /\ Len(last') = 1
                  /\ last'[1].level \in LevelNames
                  /\ last'[1].located
                  /\ last'[1].line = request.lineNumber
                  /\ last'[1].name = request.key.packageName
                  /\ annotations'[Len(annotations')].line = request.lineNumber
                  /\ annotations'[Len(annotations')].name = request.key.packageName]_vars

\* C28 witness: one call of annotatePackage has returned for each kind of
\* answer: a classification, no source, a failed lookup.
C28_Witness ==
    /\ version = "modified" /\ pending = {}
    /\ Len(lookups) = 3 /\ Len(FromLookups) = 3
    /\ FromLookups[1].kind = "package" /\ FromLookups[3].kind = "lookupError"
    /\ Len(last) = 1 /\ last[1].kind = "failure"

\* C29: the annotation of a classification whose health risk is High Risk
\* is at error level whatever the maturity, and the annotation of a
\* classification whose maturity is Experimental is at error level whatever
\* the health risk.
C29_HighRiskIsError ==
    \A k \in 1..Len(last) :
        (last[k].kind = "source" /\ version \in {"channel", "modified", "legacy"})
        => /\ last[k].health = "High Risk" => last[k].level = "error"
           /\ last[k].maturity = "Experimental" => last[k].level = "error"

\* C29 witness: a package classified Legacy and High Risk has been
\* annotated by the "modified" version.
C29_Witness ==
    /\ version = "modified" /\ Len(last) = 1 /\ last[1].kind = "source"
    /\ last[1].maturity = "Legacy" /\ last[1].health = "High Risk"
    /\ last[1].level = "error"

\* C30: at every point of a conda walk the pip sub-block is open only inside
\* the dependencies section; as long as no dependencies: line has been read,
\* neither is open and no record has been yielded, `- pip:` lines read or
\* not.
C30_PipBlockInsideDependencies ==
    CondaWalk
    => /\ inPipDependencies => inDependencies
       /\ (\A i \in 1..Len(Walked) : trim(Walked[i]) # KwDependencies)
          => ~inDependencies /\ ~inPipDependencies /\ records = <<>>

\* C30 witness: `- pip:` was read before dependencies: and opened nothing
\* (the entry after it was not yielded), and was read again after it and
\* opened the pip sub-block.
C30_Witness ==
    /\ CondaWalk /\ pc = "conda"
    /\ Walked = <<LnPip, LnFlask, LnDependencies, LnPip>>
    /\ inDependencies /\ inPipDependencies /\ records = <<>>
====
